---- MODULE Spec2Model ----
\* Model of the render loop of the lottie/svg viewer (src/src/main.rs):
\* the event-loop callback (lines 132-200), the state it closes over
\* (lines 101-130) and the host event loop that drives it.
\*
\* Durations are counted in nanoseconds, the resolution of
\* std::time::Duration; Instants are counted in ticks of the platform's clock.
EXTENDS Integers, Sequences, FiniteSets, TLC

\* ---------------------------------------------------------------- bounds
\* Capacity of the timing window (num_frames, 1000 in the source), scaled down.
NumFrames == 2
\* Longest time, in ns, that passes between two readings of the clock.
MaxStep == 2
\* Longest animation duration, in ns.
MaxDur == 2
\* Longest queue of undelivered resize events.
MaxQueue == 2

\* Frames drawn before the model stops delivering redraws: two full windows.
MaxFrames == 2 * NumFrames
\* The model clock stops advancing at this reading: two windows of 1 ns frames.
MaxClock == 2 * NumFrames

\* ------------------------------------------------------------- constants
\* time::Duration::new(1, 0).as_nanos()
OneSecond == 1000000000

\* Physical window sizes (width, height): the size the window is created
\* with and one it is resized to.
Sizes == {<<800, 600>>, <<1024, 768>>}
Durations == 0..MaxDur
\* The physical size the window is created with (lines 38-43).
InitialSize == <<800, 600>>
\* Values outside the ranges of seek times, sizes and clock readings.
NaN == 0 - 1
NoSize == <<0, 0>>
NoTime == 0 - 2

\* ---------------------------------------------------------------- helpers
Min(a, b) == IF a <= b THEN a ELSE b

RECURSIVE SumDur(_)
\* Iterator::sum::<Duration>() over the samples of s.
SumDur(s) == IF s = <<>> THEN 0 ELSE Head(s).d + SumDur(Tail(s))

\* The sums of the quotients and of the remainders by n of the samples
\* s[lo..hi], halving the range.
RECURSIVE SumQuot(_, _, _, _)
SumQuot(s, n, lo, hi) ==
    IF lo > hi THEN 0
    ELSE IF lo = hi THEN s[lo].d \div n
    ELSE LET mid == (lo + hi) \div 2
         IN SumQuot(s, n, lo, mid) + SumQuot(s, n, mid + 1, hi)

RECURSIVE SumRem(_, _, _, _)
SumRem(s, n, lo, hi) ==
    IF lo > hi THEN 0
    ELSE IF lo = hi THEN s[lo].d % n
    ELSE LET mid == (lo + hi) \div 2
         IN SumRem(s, n, lo, mid) + SumRem(s, n, mid + 1, hi)

\* sum::<Duration>() / n (line 138), which is SumDur(s) \div n: Duration
\* holds 64 bits of seconds, so the sum does not wrap; here the quotients
\* and the remainders of the samples are summed apart, which gives the same
\* value and keeps every intermediate result small.
Average(s, n) == SumQuot(s, n, 1, Len(s)) + (SumRem(s, n, 1, Len(s)) \div n)

\* Iterator::take(n)
Take(s, n) == SubSeq(s, 1, Min(n, Len(s)))

Ids(s) == {s[i].id : i \in 1..Len(s)}

\* f64 `%` (fmod) on a non-negative dividend: the result has the sign of the
\* dividend, so a negative divisor acts as its magnitude; a zero divisor
\* gives NaN.
Fmod_NoWrap(x, d) == x

Fmod(x, d) ==
    IF d = 0 THEN NaN
    ELSE IF d < 0 THEN x % (0 - d)
    ELSE x % d

\* (now - start).as_secs_f64() % dur, the argument of seek_time; e is the
\* Duration now - start.
SeekArg(e, dur) == Fmod(e, dur)

VARIABLES
    boot,           \* how far main has got: "args", ..., "load", then "loop"
    tick,           \* granularity of the platform's clock, in ns
    num_frames,     \* capacity of the timing window
    times,          \* the timing window: samples [id, d], d in ns
    now, last, start, \* Instants, in clock ticks
    to_render,      \* Either::Left(animation) or Either::Right(svg)
    surface,        \* the skia surface: its size and whether its canvas is scaled
    ctxSize,        \* size the GL context / back buffer was last resized to
    control_flow,   \* the host's control flow, "Poll" or "Exit"
    panic,          \* "none", or the unwrap/division that aborted the process
    \* host and environment
    phase,          \* "events", "redraw", "destroy", "done"
    winSize,        \* the window's current physical size
    evq,            \* resize events the host has not delivered yet
    redraw_pending, \* a redraw was requested and not yet delivered
    \* observation
    nframes,        \* frames recorded since startup
    emitted,        \* number of FPS lines printed
    lastFps,        \* the value of the last FPS line
    counted,        \* ids of the samples that went into some FPS average
    overlap,        \* a sample went into two averages
    reported,       \* size of the last resize event delivered
    closed,         \* a close request or Escape has been handled
    cb              \* what the last callback invocation did

progVars == <<boot, tick, num_frames, times, now, last, start, to_render, surface, ctxSize,
              control_flow, panic>>
hostVars == <<phase, winSize, evq, redraw_pending>>
obsVars == <<nframes, emitted, lastFps, counted, overlap, reported, closed, cb>>
vars == <<progVars, hostVars, obsVars>>

\* ------------------------------------------------------------------ Init
Assets ==
    {[tag |-> "Left", dur |-> d, cursor |-> NoTime] : d \in Durations}
    \cup {[tag |-> "Right", dur |-> 0, cursor |-> NoTime]}

NoCb ==
    [ev |-> "none", size |-> NoSize, afterExit |-> FALSE, report |-> FALSE,
     left |-> 0, creates |-> 0, createSize |-> NoSize, surfBefore |-> NoSize,
     steps |-> <<>>, seekArg |-> NoTime, drawAt |-> NoTime, seekNow |-> NoTime,
     winAt |-> NoSize, qlen |-> 0, skew |-> FALSE, requests |-> 0,
     swapFailed |-> FALSE, createFailed |-> FALSE, rsteps |-> <<>>]

Init ==
    /\ boot = "loop"
    /\ tick = 1
    /\ num_frames = NumFrames
    /\ \E t \in 0..MaxStep :
        /\ now = t
        /\ start = t
        /\ last = t
        /\ times = <<[id |-> 0, d |-> t * tick]>>
    /\ to_render \in Assets
    /\ winSize = InitialSize
    /\ ctxSize = InitialSize
    /\ surface = [size |-> InitialSize, scaled |-> TRUE]
    /\ reported = InitialSize
    /\ control_flow = "Poll"
    /\ panic = "none"
    /\ phase = "events"
    /\ evq = <<>>
    /\ redraw_pending = FALSE
    /\ nframes = 0
    /\ emitted = 0
    /\ lastFps = 0
    /\ counted = {}
    /\ overlap = FALSE
    /\ closed = FALSE
    /\ cb = NoCb

\* ------------------------------------------------- the callback, 132-200
\* Lines 135-142: when the window holds num_frames samples or more, drain it,
\* average the first num_frames samples and print 1s / average. Vec::drain(..)
\* removes every sample, whatever take() consumed; the integer division
\* panics when the average is 0 ns.
WindowFull_Late(ts, n) == Len(ts) > n

Fps_Inverted(avg) == avg \div OneSecond

\* Line 140: Duration::new(1, 0).as_nanos() / avg.as_nanos(), for avg > 0.
Fps(avg) == OneSecond \div avg

WindowFull(ts, n) == Len(ts) >= n

FpsReport(ts, n) ==
    IF WindowFull(ts, n)
    THEN LET avg == Average(Take(ts, n), n)
         IN [full |-> TRUE, times |-> <<>>, ids |-> Ids(Take(ts, n)),
             avg |-> avg, divZero |-> (avg = 0),
             fps |-> IF avg = 0 THEN 0 ELSE Fps(avg)]
    ELSE [full |-> FALSE, times |-> ts, ids |-> {}, avg |-> 0,
          divZero |-> FALSE, fps |-> 0]

Report == FpsReport(times, num_frames)

\* ControlFlow::Exit is sticky in the host: once set, what the callback
\* writes to control_flow (line 133) is discarded.
Sticky(old, written) == IF old = "Exit" THEN "Exit" ELSE written

\* Lines 74-99: a new surface of the window's inner size; its canvas has the
\* identity transform.
create_surface_Stale(inner_size) == [size |-> InitialSize, scaled |-> FALSE]

create_surface(inner_size) == [size |-> inner_size, scaled |-> FALSE]

\* Line 80: the size create_surface builds the render target with, given the
\* window's inner size and the size the resize event carried.
SurfaceSizeArg_Event(inner_size, physical_size) == physical_size

SurfaceSizeArg(inner_size, physical_size) == inner_size

\* Lines 195-197: the events whose arm calls window().request_redraw().
RequestsRedraw_Input(ev) == ev \in {"MainEventsCleared", "Other"}

RequestsRedraw(ev) == ev = "MainEventsCleared"

\* The window's pending redraw after the callback has handled ev; rp: a
\* redraw is pending once the host has taken ev.
Pending(ev, rp) == rp \/ (~Report.divZero /\ RequestsRedraw(ev))

\* What every invocation records about itself.
CbBase(ev, sz) ==
    [NoCb EXCEPT !.ev = ev, !.size = sz, !.afterExit = closed,
                 !.requests = IF RequestsRedraw(ev) THEN 1 ELSE 0,
                 !.report = Report.full, !.left = Len(Report.times),
                 !.surfBefore = surface.size,
                 !.skew = (cb.ev # "RedrawRequested" /\ cb.skew)]

\* Lines 133-142, common to every event; with the division panicking the
\* process aborts before the event is matched.
Prelude ==
    /\ UNCHANGED <<boot, tick, num_frames, start>>
    /\ counted' = counted \cup Report.ids
    /\ overlap' = (overlap \/ (Report.ids \cap counted # {}))
    /\ emitted' = IF Report.full /\ ~Report.divZero THEN emitted + 1 ELSE emitted
    /\ lastFps' = IF Report.full /\ ~Report.divZero THEN Report.fps ELSE lastFps

ReportPanics(ev, sz) ==
    /\ panic' = "div_zero"
    /\ times' = Report.times
    /\ cb' = [CbBase(ev, sz) EXCEPT !.requests = 0]
    /\ UNCHANGED <<now, last, to_render, surface, ctxSize, control_flow,
                   nframes, reported, closed>>

\* Lines 145-162: CloseRequested, or KeyboardInput with Escape.
CloseArm(ev) ==
    /\ control_flow' = "Exit"
    /\ closed' = TRUE
    /\ times' = Report.times
    /\ cb' = CbBase(ev, NoSize)
    /\ UNCHANGED <<now, last, to_render, surface, ctxSize, panic, nframes,
                   reported>>

\* Lines 163-169: Resized(physical_size). The context is resized to the
\* event's size; the surface is created from the window's inner size as read
\* at that moment (line 80). createOk: from_backend_render_target returned a
\* surface (line 98 unwraps it).
Created_Ignored(createOk) == TRUE

\* Line 98: from_backend_render_target(..).unwrap() returns only when the
\* surface was constructed.
Created(createOk) == createOk

\* Lines 167-168 in order: the context is resized, create_surface runs, and
\* the assignment drops the old surface once the new value exists.
ResizeSteps(createOk) ==
    <<"resize_context", "create_surface">>
    \o (IF Created(createOk) THEN <<"drop_old", "assign">> ELSE <<>>)

ResizedArm(physical_size, createOk) ==
    /\ ctxSize' = physical_size
    /\ reported' = physical_size
    /\ IF Created(createOk)
       THEN /\ surface' = create_surface(SurfaceSizeArg(winSize, physical_size))
            /\ panic' = panic
       ELSE /\ surface' = surface
            /\ panic' = "surface"
    /\ control_flow' = Sticky(control_flow, "Poll")
    /\ times' = Report.times
    /\ cb' = [CbBase("Resized", physical_size) EXCEPT
                !.creates = 1, !.winAt = winSize,
                !.createFailed = ~createOk,
                !.rsteps = ResizeSteps(createOk),
                !.createSize = SurfaceSizeArg(winSize, physical_size),
                !.skew = (CbBase("Resized", physical_size).skew
                          \/ winSize # physical_size)]
    /\ UNCHANGED <<now, last, to_render, nframes, closed>>

\* Lines 170-194: RedrawRequested. tDraw is the wall-clock time at which the
\* frame is drawn, tEnd the reading of Instant::now() at line 190; swapOk:
\* swap_buffers returned Ok (line 188 unwraps it).
Seeks_Always(asset) == TRUE

Presented_Ignored(swapOk) == TRUE

\* Line 188: swap_buffers().unwrap() returns only when the swap succeeded.
Presented(swapOk) == swapOk

\* Line 171: `if let Either::Left(anim) = &mut to_render`.
Seeks(asset) == asset.tag = "Left"

FrameSteps_RecordFirst(asset) ==
    (IF Seeks(asset) THEN <<"seek">> ELSE <<>>)
    \o <<"record", "clear", "render", "flush", "swap">>

FrameSteps(asset) ==
    (IF Seeks(asset) THEN <<"seek">> ELSE <<>>)
    \o <<"clear", "render", "flush", "swap", "record">>

RedrawArm(tDraw, tEnd, swapOk) ==
    LET arg == SeekArg((now - start) * tick, to_render.dur)
        steps == FrameSteps(to_render)
    IN
    /\ to_render' = IF Seeks(to_render)
                    THEN [to_render EXCEPT !.cursor = arg]
                    ELSE to_render
    /\ IF Presented(swapOk)
       THEN /\ now' = tEnd
            /\ times' = Append(Report.times, [id |-> nframes + 1,
                                                 d |-> (tEnd - last) * tick])
            /\ last' = tEnd
            /\ nframes' = nframes + 1
            /\ panic' = panic
       ELSE /\ panic' = "swap"
            /\ times' = Report.times
            /\ UNCHANGED <<now, last, nframes>>
    /\ control_flow' = Sticky(control_flow, "Poll")
    /\ cb' = [CbBase("RedrawRequested", NoSize) EXCEPT
                !.swapFailed = ~swapOk,
                !.steps = IF Presented(swapOk) THEN steps
                          ELSE SubSeq(steps, 1, Len(steps) - 1),
                !.seekArg = IF Seeks(to_render) THEN arg ELSE NoTime,
                !.seekNow = now,
                !.drawAt = tDraw, !.winAt = winSize, !.qlen = Len(evq)]
    /\ UNCHANGED <<surface, ctxSize, reported, closed>>

\* Lines 195-198 (MainEventsCleared, which requests a redraw) and the `_`
\* arm (every other event): nothing of the program's state changes.
QuietArm(ev) ==
    /\ control_flow' = Sticky(control_flow, "Poll")
    /\ times' = Report.times
    /\ cb' = CbBase(ev, NoSize)
    /\ UNCHANGED <<now, last, to_render, surface, ctxSize, panic, nframes,
                   reported, closed>>

\* ------------------------------------------------------- the host loop
\* event_loop.run (line 132) calls the callback once per event, one at a
\* time. Each iteration of the host delivers the pending window events, then
\* MainEventsCleared, then the requested redraw, then RedrawEventsCleared.
Running == boot = "loop" /\ panic = "none"

\* One invocation of the closure for event ev: lines 133-142, then the arm.
Invoke(ev, sz, arm) ==
    /\ Running
    /\ Prelude
    /\ IF Report.divZero THEN ReportPanics(ev, sz) ELSE arm

DeliverClose ==
    /\ phase = "events"
    /\ \E ev \in {"CloseRequested", "Escape"} :
        /\ Invoke(ev, NoSize, CloseArm(ev))
        /\ redraw_pending' = Pending(ev, redraw_pending)
    /\ UNCHANGED <<phase, winSize, evq>>

DeliverResized ==
    /\ phase = "events"
    /\ evq # <<>>
    /\ \E createOk \in BOOLEAN :
        Invoke("Resized", Head(evq), ResizedArm(Head(evq), createOk))
    /\ evq' = Tail(evq)
    /\ redraw_pending' = Pending("Resized", redraw_pending)
    /\ UNCHANGED <<phase, winSize>>

\* NewEvents, key presses other than Escape, cursor movement, ...
DeliverOther ==
    /\ phase = "events"
    /\ Invoke("Other", NoSize, QuietArm("Other"))
    /\ redraw_pending' = Pending("Other", redraw_pending)
    /\ UNCHANGED <<phase, winSize, evq>>

\* Delivered once the pending window events have been drained; line 196
\* requests the redraw.
DeliverMainEventsCleared ==
    /\ phase = "events"
    /\ evq = <<>>
    /\ Invoke("MainEventsCleared", NoSize, QuietArm("MainEventsCleared"))
    /\ redraw_pending' = Pending("MainEventsCleared", redraw_pending)
    /\ phase' = "redraw"
    /\ UNCHANGED <<winSize, evq>>

DeliverRedrawRequested ==
    /\ phase = "redraw"
    /\ redraw_pending
    /\ nframes < MaxFrames
    /\ \E tEnd \in now..Min(now + MaxStep, MaxClock) :
       \E tDraw \in now..tEnd :
       \E swapOk \in BOOLEAN :
        Invoke("RedrawRequested", NoSize, RedrawArm(tDraw, tEnd, swapOk))
    /\ redraw_pending' = Pending("RedrawRequested", FALSE)
    /\ UNCHANGED <<phase, winSize, evq>>

DeliverRedrawEventsCleared ==
    /\ phase = "redraw"
    /\ ~redraw_pending
    /\ Invoke("RedrawEventsCleared", NoSize, QuietArm("RedrawEventsCleared"))
    /\ phase' = IF control_flow = "Exit" THEN "destroy" ELSE "events"
    /\ redraw_pending' = Pending("RedrawEventsCleared", redraw_pending)
    /\ UNCHANGED <<winSize, evq>>

\* With ControlFlow::Exit set, a host may end its iteration at once instead
\* of delivering the iteration's remaining events.
HostStops ==
    /\ Running
    /\ control_flow = "Exit"
    /\ phase \in {"events", "redraw"}
    /\ phase' = "destroy"
    /\ UNCHANGED <<progVars, obsVars, winSize, evq, redraw_pending>>

DeliverLoopDestroyed ==
    /\ phase = "destroy"
    /\ Invoke("LoopDestroyed", NoSize, QuietArm("LoopDestroyed"))
    /\ phase' = "done"
    /\ redraw_pending' = Pending("LoopDestroyed", redraw_pending)
    /\ UNCHANGED <<winSize, evq>>

\* The user or the window manager resizes the window: its size changes at
\* once and the resize event is queued.
OSResize ==
    /\ Running
    /\ phase \in {"events", "redraw"}
    /\ Len(evq) < MaxQueue
    /\ \E s \in Sizes \ {winSize} :
        /\ winSize' = s
        /\ evq' = Append(evq, s)
    /\ UNCHANGED <<progVars, obsVars, phase, redraw_pending>>

Next ==
    \/ DeliverClose
    \/ DeliverResized
    \/ DeliverOther
    \/ DeliverMainEventsCleared
    \/ DeliverRedrawRequested
    \/ DeliverRedrawEventsCleared
    \/ HostStops
    \/ DeliverLoopDestroyed
    \/ OSResize

Spec == Init /\ [][Next]_vars

\* ------------------------------------------------------- startup, 22-131
\* main up to event_loop.run, in the order of the source. Every unwrap,
\* expect and panic! of the startup aborts the process where it stands.
NoSurface == [size |-> NoSize, scaled |-> FALSE]
NoAsset == [tag |-> "none", dur |-> 0, cursor |-> NoTime]

InitBoot ==
    /\ boot = "args"
    /\ tick = 1
    /\ num_frames = NumFrames
    /\ now = 0 /\ start = 0 /\ last = 0
    /\ times = <<>>
    /\ to_render = NoAsset
    /\ winSize = NoSize
    /\ ctxSize = NoSize
    /\ surface = NoSurface
    /\ reported = NoSize
    /\ control_flow = "Poll"
    /\ panic = "none"
    /\ phase = "events"
    /\ evq = <<>>
    /\ redraw_pending = FALSE
    /\ nframes = 0
    /\ emitted = 0
    /\ lastFps = 0
    /\ counted = {}
    /\ overlap = FALSE
    /\ closed = FALSE
    /\ cb = NoCb

Booting(at) == boot = at /\ panic = "none"

\* Lines 26-34: the INPUT argument is required; clap exits without it.
BootArgs ==
    /\ Booting("args")
    /\ \E given \in BOOLEAN :
        /\ boot' = IF given THEN "window" ELSE boot
        /\ panic' = IF given THEN panic ELSE "args"
    /\ UNCHANGED <<tick, num_frames, times, now, last, start, to_render,
                   surface, ctxSize, control_flow, hostVars, obsVars>>

\* Lines 37-72: the event loop, the window of WIDTH x HEIGHT, the GL context
\* made current and the skia GPU context; each is unwrapped.
BootWindow ==
    /\ Booting("window")
    /\ \E ok \in BOOLEAN :
        /\ boot' = IF ok THEN "surface" ELSE boot
        /\ panic' = IF ok THEN panic ELSE "context"
        /\ winSize' = IF ok THEN InitialSize ELSE winSize
        /\ ctxSize' = IF ok THEN InitialSize ELSE ctxSize
        /\ reported' = IF ok THEN InitialSize ELSE reported
    /\ UNCHANGED <<tick, num_frames, times, now, last, start, to_render,
                   surface, control_flow, phase, evq, redraw_pending,
                   nframes, emitted, lastFps, counted, overlap, closed, cb>>

\* Lines 101-103: the first surface, and the scale factor set on its canvas.
BootSurface ==
    /\ Booting("surface")
    /\ \E ok \in BOOLEAN :
        /\ boot' = IF ok THEN "clock" ELSE boot
        /\ panic' = IF ok THEN panic ELSE "surface"
        /\ surface' = IF ok
                      THEN [create_surface(winSize) EXCEPT !.scaled = TRUE]
                      ELSE surface
    /\ UNCHANGED <<tick, num_frames, times, now, last, start, to_render,
                   ctxSize, control_flow, hostVars, obsVars>>

\* Lines 105-114: two readings of the clock and the first sample.
BootClock ==
    /\ Booting("clock")
    /\ \E t \in 0..MaxStep :
        /\ now' = t
        /\ start' = t
        /\ last' = t
        /\ times' = <<[id |-> 0, d |-> t * tick]>>
    /\ boot' = "open"
    /\ UNCHANGED <<tick, num_frames, to_render, surface, ctxSize,
                   control_flow, panic, hostVars, obsVars>>

\* Line 116: File::open(filename).unwrap()
BootOpen ==
    /\ Booting("open")
    /\ \E ok \in BOOLEAN :
        /\ boot' = IF ok THEN "load" ELSE boot
        /\ panic' = IF ok THEN panic ELSE "open"
    /\ UNCHANGED <<tick, num_frames, times, now, last, start, to_render,
                   surface, ctxSize, control_flow, hostVars, obsVars>>

\* Lines 117-130: the decoder is chosen by the lower-cased extension; what
\* the decoder returns is taken as it is.
Extensions == {"json", "lottie", "svg", "txt", "none"}

Decoder(ext) ==
    IF ext \in {"json", "lottie"} THEN "Left"
    ELSE IF ext = "svg" THEN "Right"
    ELSE "unrecognized"

BootLoad ==
    /\ Booting("load")
    /\ \E ext \in Extensions : \E decoded \in Assets \cup {NoAsset} :
        /\ Decoder(ext) # "unrecognized" => decoded.tag \in {Decoder(ext), "none"}
        /\ Decoder(ext) = "unrecognized" => decoded = NoAsset
        /\ to_render' = decoded
        /\ panic' = IF Decoder(ext) = "unrecognized" THEN "filetype"
                    ELSE IF decoded = NoAsset THEN "decode"
                    ELSE panic
        /\ boot' = IF decoded = NoAsset THEN boot ELSE "loop"
    /\ UNCHANGED <<tick, num_frames, times, now, last, start, surface,
                   ctxSize, control_flow, hostVars, obsVars>>

NextBoot ==
    \/ BootArgs
    \/ BootWindow
    \/ BootSurface
    \/ BootClock
    \/ BootOpen
    \/ BootLoad
    \/ Next

SpecBoot == InitBoot /\ [][NextBoot]_vars

\* ---------------------------------------- 1000 frames of 16 ms each
\* The program as built: num_frames = 1000 (line 110). The clock ticks once
\* per millisecond, the asset is the static graphic (whose frames read no
\* elapsed time), no window event arrives, every swap succeeds and every
\* frame ends 16 ms after the previous reading of the clock.
ScenarioFrames == 1000

InitD ==
    /\ boot = "loop"
    /\ tick = 1000 * 1000
    /\ num_frames = ScenarioFrames
    /\ \E t \in 0..MaxStep :
        /\ now = t
        /\ start = t
        /\ last = t
        /\ times = <<[id |-> 0, d |-> t * tick]>>
    /\ to_render = [tag |-> "Right", dur |-> 0, cursor |-> NoTime]
    /\ winSize = InitialSize
    /\ ctxSize = InitialSize
    /\ surface = [size |-> InitialSize, scaled |-> TRUE]
    /\ reported = InitialSize
    /\ control_flow = "Poll"
    /\ panic = "none"
    /\ phase = "events"
    /\ evq = <<>>
    /\ redraw_pending = FALSE
    /\ nframes = 0
    /\ emitted = 0
    /\ lastFps = 0
    /\ counted = {}
    /\ overlap = FALSE
    /\ closed = FALSE
    /\ cb = NoCb

ScenarioFrame ==
    /\ phase = "redraw"
    /\ redraw_pending
    /\ nframes < ScenarioFrames
    /\ Invoke("RedrawRequested", NoSize, RedrawArm(now, now + 16, TRUE))
    /\ redraw_pending' = Pending("RedrawRequested", FALSE)
    /\ UNCHANGED <<phase, winSize, evq>>

NextD ==
    \/ DeliverMainEventsCleared
    \/ ScenarioFrame
    \/ DeliverRedrawEventsCleared

SpecD == InitD /\ [][NextD]_vars

\* ------------------------------------------------------------- claims
IsFrame == cb.ev = "RedrawRequested"
FrameDone == IsFrame /\ panic = "none"
Timed == to_render.tag = "Left"

\* C1: after k < N frames recorded since startup no FPS value has been
\* emitted and the timing window holds exactly k entries.
C1_Claim ==
    nframes < num_frames => (emitted = 0 /\ Len(times) = nframes)

\* C2: after exactly N frames recorded exactly one FPS value has been
\* emitted and the window is empty, and the report is made by the callback
\* that records the frame, not by a later event's.
C2_Claim ==
    /\ nframes = num_frames => (emitted = 1 /\ times = <<>>)
    /\ cb.report => IsFrame

\* C3: the window never holds more than N samples; a full window is drained
\* completely, every recorded sample is either still in the window or went
\* into exactly one average.
C3_WindowBounded ==
    /\ Len(times) <= num_frames
    /\ cb.report => cb.left = 0
    /\ ~overlap
    /\ counted \cap Ids(times) = {}
    /\ counted \cup Ids(times) = 0..nframes

C3_Witness ==
    /\ emitted = 2
    /\ Cardinality(counted) = 2 * num_frames
    /\ times # <<>>

\* C4: a full window whose average is 0 ns never makes the program divide
\* by zero or abort.
C4_Claim == panic # "div_zero"

\* C5: once a close request or Escape has been handled, the control flow
\* stays Exit and no later callback draws a frame.
C5_Claim ==
    closed => /\ control_flow = "Exit"
              /\ ~(cb.afterExit /\ cb.steps # <<>>)

C7_Claim ==
    /\ (cb.ev = "Resized" /\ cb.size # cb.surfBefore)
            => (cb.creates = 1 /\ cb.createSize = cb.size)
    /\ (cb.ev = "Resized" /\ cb.size = cb.surfBefore) => cb.creates = 0
    /\ cb.ev # "Resized" => cb.creates = 0

\* C7, amended: every resize event handled causes exactly one recreation,
\* with the window's inner size as read at that moment, whether or not that
\* is the event's size or differs from the surface's; no other event causes
\* a recreation.
C7_Amended ==
    /\ (cb.ev = "Resized" /\ panic # "div_zero")
            => (cb.creates = 1 /\ cb.createSize = cb.winAt)
    /\ cb.ev # "Resized" => cb.creates = 0

C7_Witness ==
    /\ cb.ev = "Resized"
    /\ cb.creates = 1
    /\ cb.createSize # cb.size
    /\ cb.createSize = cb.surfBefore

\* C8: a completed frame is seek (timed animation only), clear, render,
\* flush, swap, record in that order, within one callback invocation, and
\* records exactly one duration; no other invocation runs a frame step or
\* records a duration.
C8_FrameOrder ==
    /\ FrameDone =>
        /\ cb.steps = (IF Timed THEN <<"seek">> ELSE <<>>)
                       \o <<"clear", "render", "flush", "swap", "record">>
        /\ Len(times) = cb.left + 1
        /\ times[Len(times)].id = nframes
    /\ (IsFrame /\ panic = "swap") =>
        /\ cb.steps = (IF Timed THEN <<"seek">> ELSE <<>>)
                       \o <<"clear", "render", "flush", "swap">>
        /\ Len(times) = cb.left
    /\ ~IsFrame => cb.steps = <<>>
    /\ (~IsFrame /\ cb.ev # "none") => Len(times) = cb.left

C8_Witness ==
    /\ FrameDone
    /\ Timed
    /\ nframes = 2
    /\ cb.steps[1] = "seek"
    /\ cb.steps[Len(cb.steps)] = "record"

\* C9: the local time sought in a frame of a timed animation is
\* (t - origin) mod duration, t the wall-clock time the frame is drawn at.
C9_Claim ==
    (IsFrame /\ Timed /\ to_render.dur > 0)
        => cb.seekArg = ((cb.drawAt - start) * tick) % to_render.dur

\* C10: for a timed animation of duration > 0 the sought local time is in
\* [0, duration) and differs from the elapsed time by a whole number of
\* durations.
C10_Looping ==
    (IsFrame /\ Timed /\ to_render.dur > 0)
        => /\ 0 <= cb.seekArg
           /\ cb.seekArg < to_render.dur
           /\ \E q \in 0..MaxClock :
                cb.seekArg + q * to_render.dur = (cb.seekNow - start) * tick
           /\ to_render.cursor = cb.seekArg

C10_Witness ==
    /\ FrameDone
    /\ Timed
    /\ to_render.dur > 1
    /\ cb.seekNow - start > to_render.dur
    /\ cb.seekArg > 0
    /\ cb.seekArg < cb.seekNow - start

\* C11: a timed animation of duration <= 0 is rejected by the load, before
\* the event loop starts: the loop never holds one, and no frame takes a
\* modulo by such a duration.
C11_Claim ==
    (boot = "loop" /\ Timed) => to_render.dur > 0

\* C12: the callback for MainEventsCleared requests one redraw, runs no
\* frame step, creates no surface and records no duration, and leaves the
\* control flow at Poll; the callback for any other event requests none.
C12_IdleRequests ==
    /\ cb.ev = "MainEventsCleared" =>
        /\ cb.requests = 1
        /\ redraw_pending
        /\ cb.steps = <<>>
        /\ cb.creates = 0
        /\ Len(times) = cb.left
        /\ ~closed => control_flow = "Poll"
    /\ cb.ev # "MainEventsCleared" => cb.requests = 0

C12_Witness ==
    /\ cb.ev = "MainEventsCleared"
    /\ cb.requests = 1
    /\ redraw_pending
    /\ nframes > 0

\* C13: as long as nothing closed the window and neither presentation nor
\* surface creation failed, the program is still running and its control
\* flow is Poll, so the host goes on polling and frames go on being drawn.
C13_Claim ==
    (~closed /\ panic \notin {"swap", "surface"}) =>
        /\ panic = "none"
        /\ control_flow = "Poll"

NotSeek(step) == step # "seek"

\* C15: with a static graphic no frame seeks and the asset keeps the state
\* it was loaded with; seek aside, a completed frame runs the same steps for
\* either kind of asset (clear, render, flush, swap, record) and records one
\* duration.
C15_StaticNoSeek ==
    /\ (boot = "loop" /\ ~Timed) =>
        /\ to_render.cursor = NoTime
        /\ IsFrame => cb.seekArg = NoTime /\ SelectSeq(cb.steps, NotSeek) = cb.steps
    /\ FrameDone =>
        /\ SelectSeq(cb.steps, NotSeek) =
               <<"clear", "render", "flush", "swap", "record">>
        /\ Len(times) = cb.left + 1

C15_Witness ==
    /\ ~Timed
    /\ FrameDone
    /\ nframes >= 2
    /\ to_render.cursor = NoTime

\* C16: while the 1000 frames run at most one FPS value is emitted and it is
\* 62; once all 1000 have run, exactly one has been emitted.
C16_OneReport62 ==
    /\ emitted <= 1
    /\ emitted = 1 => lastFps = 62
    /\ nframes = ScenarioFrames => emitted = 1

C16_Witness ==
    /\ nframes = ScenarioFrames
    /\ num_frames = 1000
    /\ emitted = 1
    /\ lastFps = 62
    /\ cb.ev = "RedrawRequested"
    /\ times[Len(times)].d = 16 * tick

\* C17: a frame whose swap fails ends in the abort: it records no duration
\* and does not read the clock again, and from then on nothing of the
\* program's state changes (no event is handled, no frame drawn, no FPS
\* value printed).
C17_SwapFatal ==
    /\ [](cb.swapFailed =>
            /\ panic = "swap"
            /\ IsFrame
            /\ Len(times) = cb.left
            /\ cb.steps = SubSeq(FrameSteps(to_render), 1,
                                 Len(FrameSteps(to_render)) - 1)
            /\ now = cb.seekNow)
    /\ [][cb.swapFailed => UNCHANGED <<progVars, obsVars>>]_vars

C17_Witness ==
    /\ cb.swapFailed
    /\ panic = "swap"
    /\ nframes >= 1
    /\ phase = "redraw"

\* C18: the window is empty when the loop starts, and a callback for an
\* event other than RedrawRequested neither drains the window (which prints
\* an FPS value) nor adds to it.
C18_Claim ==
    /\ (boot = "loop" /\ cb.ev = "none") => times = <<>>
    /\ (cb.ev \notin {"none", "RedrawRequested"}) =>
        /\ ~cb.report
        /\ Len(times) = cb.left

\* C19: a resize callback that returns has resized the context, then
\* created the surface, then dropped the old one and installed the new one,
\* and has drawn nothing; one whose surface creation fails aborts with the
\* old surface still in place; every frame is drawn with a surface in place.
C19_ResizeOrder ==
    /\ (cb.ev = "Resized" /\ panic = "none") =>
        /\ cb.rsteps = <<"resize_context", "create_surface", "drop_old", "assign">>
        /\ ctxSize = cb.size
        /\ surface = create_surface(cb.createSize)
        /\ cb.steps = <<>>
        /\ ~closed => control_flow = "Poll"
    /\ cb.createFailed =>
        /\ panic = "surface"
        /\ cb.ev = "Resized"
        /\ cb.rsteps = <<"resize_context", "create_surface">>
        /\ surface.size = cb.surfBefore
    /\ boot = "loop" => surface.size \in Sizes
    /\ IsFrame => cb.surfBefore \in Sizes

C19_Witness ==
    /\ cb.ev = "Resized"
    /\ cb.createFailed
    /\ panic = "surface"
    /\ nframes >= 1
    /\ surface.size # InitialSize

\* C20: every frame is drawn on a surface whose canvas carries the scale
\* factor of the window.
C20_Claim ==
    IsFrame => surface.scaled

\* C14: the "unrecognized filetype" error comes before any window, GL
\* context or surface is created, and the event loop is never entered.
C14_Claim ==
    panic = "filetype" =>
        /\ winSize = NoSize
        /\ ctxSize = NoSize
        /\ surface = NoSurface
        /\ boot # "loop"

====
